---- MODULE Spec2Model ----
(***************************************************************************)
(* Prediction lifecycle and adaptive scoring of the BTC predictor:         *)
(* BTCPredictor (btc_predictor.py), PredictionManager                      *)
(* (prediction_manager.py), SelfLearningModule (self_learning_module.py),  *)
(* the evaluation cycle (periodic_evaluation.py) and the HTTP endpoints    *)
(* (web_api.py).                                                           *)
(*                                                                         *)
(* Numbers.  Every fraction of the program (weights, confidences,          *)
(* sentiment scores, price changes, indicator values other than RSI) is a  *)
(* fixed-point integer in units of 1/Unit = 0.0001; a product or quotient  *)
(* of two fractions is rounded toward minus infinity.  Time is in minutes. *)
(* A Python dict is a function; a key the dict lacks is outside DOMAIN.    *)
(***************************************************************************)
EXTENDS Integers, Sequences, FiniteSets, TLC

VARIABLES
    now,                  \* datetime.now(), minutes
    outcomes_file,        \* prediction_outcomes.json
    prediction_outcomes,  \* PredictionManager.prediction_outcomes, per manager
    strategy_file,        \* strategy_config.json
    strategy_config,      \* SelfLearningModule.strategy_config, per manager
    performance_metrics,  \* SelfLearningModule.performance_metrics, per manager
    performance_log,      \* performance_log.json
    adjustments,          \* completed runs of _adjust_strategy
    last_prediction,      \* what the last predict_next_movement called on the
                          \* predictor itself (outside a manager) returned
    last_inputs,          \* the inputs of that call, or of a classification
    last_return,          \* what the last record_actual_outcome returned,
                          \* whether the last record_prediction_for_evaluation
                          \* skipped, or the last classification
    eval_pc,              \* position of perform_evaluation_cycle
    eval_pending          \* its pending_evaluations still to be iterated

vars == <<now, outcomes_file, prediction_outcomes, strategy_file, strategy_config,
          performance_metrics, performance_log, adjustments, last_prediction,
          last_inputs, last_return, eval_pc, eval_pending>>

storeVars == <<outcomes_file, prediction_outcomes, last_return>>
learnVars == <<strategy_file, strategy_config, performance_metrics,
               performance_log, adjustments>>
genVars   == <<last_prediction, last_inputs>>
evalVars  == <<eval_pc, eval_pending>>

----------------------------------------------------------------------------
(* Fixed point *)

Unit == 100 * 100

Abs(x) == IF x < 0 THEN 0 - x ELSE x
Min(a, b) == IF a < b THEN a ELSE b
Max(a, b) == IF a > b THEN a ELSE b
\* np.clip(x, -1, 1)
Clip(x) == Max(0 - Unit, Min(Unit, x))

\* Python None, and a call that has not happened yet
None == [none |-> TRUE]

----------------------------------------------------------------------------
(* BTCPredictor *)

\* self.prediction_window
prediction_window == 15
\* self.confidence_threshold = 0.6
confidence_threshold == 6000
\* self.weights
weights ==
    [rsi |-> 2500, macd |-> 2500, ma_trend |-> 2000, volume |-> 1500,
     bollinger |-> 1500]

\* The composite score of generate_prediction under the weights w.
Score(w, indicators) ==
    LET rsi_term  == IF indicators.rsi < 30 THEN w.rsi * Unit
                     ELSE IF indicators.rsi > 70 THEN 0 - (w.rsi * Unit)
                     ELSE 0
        macd_term == w.macd * Clip(indicators.macd_histogram * 5)
        ma_term   == w.ma_trend * Clip(indicators.ma_trend * 10)
        vol_term  == w.volume * Clip(indicators.volume_indicator * 10)
        bb_term   == IF indicators.bollinger_position < 2000
                        THEN w.bollinger * Unit
                     ELSE IF indicators.bollinger_position > 8000
                        THEN 0 - (w.bollinger * Unit)
                     ELSE 0
        mom_term  == 1000 * Clip(indicators.momentum * 10)
    IN  (rsi_term + macd_term + ma_term + vol_term + bb_term + mom_term) \div Unit

\* A generate_prediction that forgets to cap the confidence at 1.0.
generate_prediction_nocap(indicators) ==
    LET score == Score(weights, indicators)
    IN  [direction |-> IF score > 0 THEN "UP" ELSE "DOWN",
         confidence |-> Abs(score)]

\* generate_prediction under the weights w: (direction, confidence)
GenerateWith(w, indicators) ==
    LET score == Score(w, indicators)
    IN  [direction |-> IF score > 0 THEN "UP" ELSE "DOWN",
         confidence |-> Min(Abs(score), Unit)]

\* generate_prediction: the weights are the predictor's own self.weights
generate_prediction(indicators) == GenerateWith(weights, indicators)

\* ProductionSentimentAnalyzer.integrate_with_prediction, given the combined
\* sentiment that get_production_sentiment_score returned.
integrate_with_prediction(base_prediction_confidence, base_direction, combined_sentiment) ==
    LET sentiment_factor   == (combined_sentiment * 3) \div 10
        original_direction == IF base_direction = "UP" THEN Unit
                              ELSE IF base_direction = "DOWN" THEN 0 - Unit
                              ELSE 0
        adjusted_direction == original_direction + sentiment_factor
        agreement_factor   == Abs(sentiment_factor)
    IN  [final_direction  |-> IF adjusted_direction > 1000 THEN "UP"
                              ELSE IF adjusted_direction < 0 - 1000 THEN "DOWN"
                              ELSE "HOLD",
         final_confidence |-> Min(Unit, base_prediction_confidence
                                          + (agreement_factor * 2) \div 10)]

\* The HOLD rule of predict_next_movement under the threshold t.
ApplyThreshold(t, final_direction, final_confidence) ==
    IF final_confidence < t THEN "HOLD" ELSE final_direction

\* The body of predict_next_movement, given the technical call tech and the
\* threshold t of its HOLD rule.  market is what fetch_kline_data and
\* analyze_technical_indicators gave (available = FALSE: the fetch returned
\* nothing); sentiment.available = FALSE: no analyzer, or its call raised.
PredictWith(tech, t, market, sentiment, at) ==
    IF ~market.available
    THEN [prediction |-> "HOLD", confidence |-> 0, timestamp |-> at,
          reason |-> "No data available"]
    ELSE
    LET final == IF sentiment.available
                 THEN integrate_with_prediction(tech.confidence, tech.direction,
                                                sentiment.combined_sentiment)
                 ELSE [final_direction |-> tech.direction,
                       final_confidence |-> tech.confidence]
        base  == [prediction |-> ApplyThreshold(t, final.final_direction,
                                                final.final_confidence),
                  confidence |-> final.final_confidence,
                  timestamp |-> at,
                  current_price |-> market.close,
                  indicators |-> market.indicators,
                  reason |-> IF final.final_confidence < t
                             THEN "Low confidence" ELSE "Confidence",
                  prediction_window_minutes |-> prediction_window,
                  technical_analysis |-> tech]
    IN  IF sentiment.available
        THEN base @@ [sentiment_analysis |->
                         [combined_sentiment |-> sentiment.combined_sentiment]]
        ELSE base

\* predict_next_movement: the technical call is generate_prediction and the
\* threshold is the predictor's own self.confidence_threshold
predict_next_movement(market, sentiment, at) ==
    PredictWith(IF market.available THEN generate_prediction(market.indicators)
                ELSE None,
                confidence_threshold, market, sentiment, at)

----------------------------------------------------------------------------
(* SelfLearningModule *)

\* adjustment_thresholds
accuracy_drop == 500
low_performance_streak == 5
\* the windows and the minimum history of _evaluate_adjustment_needed and
\* _adjust_strategy, and the length record_prediction_result keeps
recent_window == 20
adjust_window == 50
min_records == 10
log_keep == 1000

\* default_config of _load_strategy_config
default_config ==
    [indicator_weights |->
        [rsi |-> 2500, macd |-> 2500, ma_trend |-> 2000, volume |-> 1500,
         bollinger |-> 1500],
     sentiment_weight |-> 3000,
     confidence_threshold |-> 6000,
     learning_rate |-> 1000,
     adjustment_sensitivity |-> 500]

\* performance_metrics of __init__ (by_strategy, by_timeframe and
\* by_market_condition are reporting only and left out)
initial_metrics == [total_predictions |-> 0, correct_predictions |-> 0,
                    accuracy_rate |-> 0]

\* k / n as a fraction
Ratio(k, n) == (k * Unit) \div n

\* s[-n:]
LastN(s, n) == SubSeq(s, Max(1, Len(s) - n + 1), Len(s))

\* A correctness test that compares the directions for HOLD as well.
is_prediction_correct_strict(predicted, actual, price_change) ==
    predicted = actual

\* _is_prediction_correct
is_prediction_correct(predicted, actual, price_change) ==
    IF predicted = "HOLD" THEN Abs(price_change) < 100
    ELSE predicted = actual

\* _classify_error_type
classify_error_type(predicted, actual) ==
    IF predicted = actual THEN "correct_prediction"
    ELSE IF predicted = "HOLD" /\ actual \in {"UP", "DOWN"} THEN "missed_opportunity"
    ELSE IF predicted \in {"UP", "DOWN"} /\ actual = "HOLD" THEN "false_signal"
    ELSE IF predicted = "UP" /\ actual = "DOWN" THEN "direction_inverted_UP_to_DOWN"
    ELSE IF predicted = "DOWN" /\ actual = "UP" THEN "direction_inverted_DOWN_to_UP"
    ELSE "other_error"

\* The record record_prediction_result builds and analyses (actual_outcome
\* given).  technical_factors and sentiment_factors of the analysis are
\* descriptive strings no decision reads; they are left out.
analyzed_record(prediction_data, actual_outcome, actual_price_change) ==
    LET is_correct == is_prediction_correct(prediction_data.prediction,
                                            actual_outcome, actual_price_change)
        base == [timestamp |-> prediction_data.timestamp,
                 predicted_direction |-> prediction_data.prediction,
                 predicted_confidence |-> prediction_data.confidence,
                 actual_direction |-> actual_outcome,
                 actual_price_change |-> actual_price_change,
                 current_price |-> prediction_data.current_price,
                 indicators |-> prediction_data.indicators,
                 technical_analysis |-> prediction_data.technical_analysis,
                 prediction_window_minutes |->
                     prediction_data.prediction_window_minutes,
                 is_correct |-> is_correct,
                 analysis |-> [is_correct |-> is_correct,
                               error_type |-> classify_error_type(
                                   prediction_data.prediction, actual_outcome)]]
    IN  IF "sentiment_analysis" \in DOMAIN prediction_data
        THEN base @@ [sentiment_analysis |-> prediction_data.sentiment_analysis]
        ELSE base

\* _update_performance_metrics
update_performance_metrics(metrics, record) ==
    LET total   == metrics.total_predictions + 1
        correct == metrics.correct_predictions
                     + (IF record.analysis.is_correct THEN 1 ELSE 0)
    IN  [total_predictions |-> total, correct_predictions |-> correct,
         accuracy_rate |-> Ratio(correct, total)]

\* the streak loop of _evaluate_adjustment_needed
IncorrectStreak(records) ==
    LET n == Len(records)
        run == {k \in 0..n : \A i \in (n - k + 1)..n : ~records[i].analysis.is_correct}
    IN  CHOOSE k \in run : \A j \in run : j <= k

\* _evaluate_adjustment_needed, on the log as the file holds it
evaluate_adjustment_needed(log, metrics) ==
    LET recent_records == LastN(log, recent_window)
        recent_correct == Cardinality({i \in 1..Len(recent_records) :
                                          recent_records[i].analysis.is_correct})
        recent_accuracy == Ratio(recent_correct, Len(recent_records))
        overall_accuracy == metrics.accuracy_rate
    IN  IF Len(recent_records) < min_records THEN FALSE
        ELSE IF overall_accuracy > 0
                /\ (overall_accuracy - recent_accuracy) > accuracy_drop THEN TRUE
        ELSE IncorrectStreak(recent_records) >= low_performance_streak

\* _indicator_aligned_with_outcome
indicator_aligned_with_outcome(indicator_name, indicator_value, actual_direction) ==
    IF actual_direction = "HOLD" THEN TRUE
    ELSE IF indicator_name = "rsi"
        THEN \/ actual_direction = "UP" /\ indicator_value < 40
             \/ actual_direction = "DOWN" /\ indicator_value > 60
    ELSE IF indicator_name \in {"macd_histogram", "ma_trend", "momentum"}
        THEN \/ actual_direction = "UP" /\ indicator_value > 0
             \/ actual_direction = "DOWN" /\ indicator_value < 0
    ELSE IF indicator_name = "bollinger_position"
        THEN \/ actual_direction = "UP" /\ indicator_value < 3000
             \/ actual_direction = "DOWN" /\ indicator_value > 7000
    ELSE FALSE

\* the clamp of an indicator weight, of the sentiment weight and of the
\* confidence threshold
ClampWeight(x) == Max(500, Min(5000, x))
SentimentUp(x) == Min(5000, x)
SentimentDown(x) == Max(1000, x)
ThresholdDown(x) == Max(4000, x)
\* A ceiling of the threshold that was never applied.
ThresholdUp_noceiling(x) == x
ThresholdUp(x) == Min(8000, x)

\* _adjust_indicator_weights: the new indicator_weights
adjust_indicator_weights(config, recent_records) ==
    LET old   == config.indicator_weights
        names == UNION {DOMAIN recent_records[i].indicators :
                            i \in 1..Len(recent_records)}
        total_count(n) == Cardinality({i \in 1..Len(recent_records) :
                              n \in DOMAIN recent_records[i].indicators})
        correct_count(n) == Cardinality({i \in 1..Len(recent_records) :
                              /\ n \in DOMAIN recent_records[i].indicators
                              /\ indicator_aligned_with_outcome(
                                     n, recent_records[i].indicators[n],
                                     recent_records[i].actual_direction)})
        new_weight(n) ==
            LET accuracy == Ratio(correct_count(n), total_count(n))
                adjustment == ((accuracy - 5000) * config.learning_rate) \div Unit
                current_weight == IF n \in DOMAIN old THEN old[n] ELSE 2000
            IN  ClampWeight(current_weight + adjustment)
    IN  [n \in (DOMAIN old) \cup names |->
            IF n \in names THEN new_weight(n) ELSE old[n]]

\* An alignment test with the sign of the sentiment taken the wrong way.
sentiment_aligned_with_outcome_flipped(sentiment_score, actual_direction) ==
    IF actual_direction = "HOLD" THEN Abs(sentiment_score) < 2000
    ELSE \/ actual_direction = "UP" /\ sentiment_score < 0
         \/ actual_direction = "DOWN" /\ sentiment_score > 0

\* _sentiment_aligned_with_outcome
sentiment_aligned_with_outcome(sentiment_score, actual_direction) ==
    IF actual_direction = "HOLD" THEN Abs(sentiment_score) < 2000
    ELSE \/ actual_direction = "UP" /\ sentiment_score > 0
         \/ actual_direction = "DOWN" /\ sentiment_score < 0

\* _adjust_sentiment_weight: the new sentiment_weight
adjust_sentiment_weight(config, recent_records) ==
    LET with_sentiment == {i \in 1..Len(recent_records) :
                              "sentiment_analysis" \in DOMAIN recent_records[i]}
        helpful(i) ==
            LET r == recent_records[i]
                sentiment_aligned == sentiment_aligned_with_outcome(
                    r.sentiment_analysis.combined_sentiment, r.actual_direction)
                tech_correct == (r.technical_analysis.direction = r.actual_direction)
            IN  (~tech_correct /\ sentiment_aligned) \/ (tech_correct /\ sentiment_aligned)
        total_count   == Cardinality(with_sentiment)
        helpful_count == Cardinality({i \in with_sentiment : helpful(i)})
        helpful_ratio == Ratio(helpful_count, total_count)
        current_weight == config.sentiment_weight
        learning_rate == config.learning_rate
    IN  IF total_count = 0 THEN current_weight
        ELSE IF helpful_ratio > 6000
            THEN SentimentUp(current_weight
                             + ((helpful_ratio - 5000) * learning_rate) \div Unit)
        ELSE IF helpful_ratio < 4000
            THEN SentimentDown(current_weight
                               - ((5000 - helpful_ratio) * learning_rate) \div Unit)
        ELSE current_weight

\* _adjust_confidence_threshold: the new confidence_threshold
adjust_confidence_threshold(config, recent_records) ==
    LET idx  == 1..Len(recent_records)
        high == {i \in idx : recent_records[i].predicted_confidence >= 7000}
        low  == {i \in idx : /\ recent_records[i].predicted_confidence < 7000
                             /\ recent_records[i].predicted_confidence <= 3000}
        ok(S) == Cardinality({i \in S : recent_records[i].analysis.is_correct})
        high_acc == Ratio(ok(high), Cardinality(high))
        low_acc  == Ratio(ok(low), Cardinality(low))
        t == config.confidence_threshold
    IN  IF Len(recent_records) < 5 THEN t
        ELSE IF high = {} \/ low = {} THEN t
        ELSE IF low_acc > high_acc /\ low_acc > 6000 THEN ThresholdDown(t - 500)
        ELSE IF high_acc < 6000 THEN ThresholdUp(t + 500)
        ELSE t

\* the three adjustments of _adjust_strategy on the in-memory config
adjusted_config(config, recent_records) ==
    [config EXCEPT
        !.indicator_weights = adjust_indicator_weights(config, recent_records),
        !.sentiment_weight = adjust_sentiment_weight(config, recent_records),
        !.confidence_threshold = adjust_confidence_threshold(config, recent_records)]

\* record_prediction_result with an actual outcome, as a function of what the
\* module holds (config, metrics) and of the two files it reads and writes.
\* The adjustment is decided and computed on the log before the new record
\* is appended to it.
record_prediction_result(config, file, metrics, log, prediction_data, actual_outcome, actual_price_change) ==
    LET record   == analyzed_record(prediction_data, actual_outcome,
                                    actual_price_change)
        metrics2 == update_performance_metrics(metrics, record)
        adjustment_needed == evaluate_adjustment_needed(log, metrics2)
        recent_records == LastN(log, adjust_window)
        adjusts  == adjustment_needed /\ ~(Len(recent_records) < min_records)
        config2  == IF adjusts THEN adjusted_config(config, recent_records)
                    ELSE config
        appended == Append(log, record)
    IN  [strategy_config |-> config2,
         strategy_file |-> IF adjusts THEN config2 ELSE file,
         performance_metrics |-> metrics2,
         performance_log |-> IF Len(appended) > log_keep
                             THEN LastN(appended, log_keep) ELSE appended,
         adjusted |-> adjusts]

\* The KeyError of record_prediction_result on a prediction without data.
RecordResultRaises(prediction_data) ==
    "current_price" \notin DOMAIN prediction_data

\* The learning module of manager m records a result.
LearnRecord(m, prediction_data, actual_outcome, actual_price_change) ==
    LET r == record_prediction_result(strategy_config[m], strategy_file,
                 performance_metrics[m], performance_log, prediction_data,
                 actual_outcome, actual_price_change)
    IN  /\ strategy_config' = [strategy_config EXCEPT ![m] = r.strategy_config]
        /\ strategy_file' = r.strategy_file
        /\ performance_metrics' =
               [performance_metrics EXCEPT ![m] = r.performance_metrics]
        /\ performance_log' = r.performance_log
        /\ adjustments' = adjustments + (IF r.adjusted THEN 1 ELSE 0)

----------------------------------------------------------------------------
(* PredictionManager *)

\* the buffer of get_pending_evaluations
evaluation_buffer == 5

\* {} of _load_prediction_outcomes
EmptyStore == [id \in {} |-> None]

\* the entry make_prediction and record_prediction_for_evaluation store
NewEntry(prediction) ==
    [prediction |-> prediction, actual_outcome |-> None, evaluation_time |-> None]

\* prediction_outcomes[prediction_id] = entry
Put(store, prediction_id, entry) ==
    [id \in (DOMAIN store) \cup {prediction_id} |->
        IF id = prediction_id THEN entry ELSE store[id]]

\* An insert that saves the store whether or not it added the entry.
InsertSaves_always(store, prediction) == TRUE

\* record_prediction_for_evaluation: whether it calls _save_prediction_outcomes
InsertSaves(store, prediction) == prediction.timestamp \notin DOMAIN store

\* record_prediction_for_evaluation: the store afterwards
record_prediction_for_evaluation(store, prediction) ==
    IF prediction.timestamp \notin DOMAIN store
    THEN Put(store, prediction.timestamp, NewEntry(prediction))
    ELSE store

\* the KeyError of get_pending_evaluations: an entry without outcome whose
\* prediction has no prediction_window_minutes
PendingRaises(store) ==
    \E id \in DOMAIN store :
        /\ store[id].actual_outcome = None
        /\ "prediction_window_minutes" \notin DOMAIN store[id].prediction

\* the test of get_pending_evaluations on an entry without outcome
IsReady(entry, at) ==
    at >= entry.prediction.timestamp
            + (entry.prediction.prediction_window_minutes + evaluation_buffer)

\* get_pending_evaluations when it does not raise: the ids it returns
get_pending_evaluations(store, at) ==
    {id \in DOMAIN store :
        /\ store[id].actual_outcome = None
        /\ IsReady(store[id], at)}

----------------------------------------------------------------------------
(* Outcome classification *)

\* price_change = (current_price - prediction_price) / prediction_price
PriceChange(prediction_price, current_price) ==
    ((current_price - prediction_price) * Unit) \div prediction_price

\* perform_evaluation_cycle: the direction it derives from the two prices
periodic_direction(prediction_price, current_price) ==
    LET price_change == PriceChange(prediction_price, current_price)
        threshold == 50
    IN  IF Abs(price_change) < threshold THEN "HOLD"
        ELSE IF price_change > threshold THEN "UP"
        ELSE "DOWN"

----------------------------------------------------------------------------
(* Processes and inputs *)

\* "gen": the PredictionManager of run_continuous_predictions; "api": the one
\* of web_api (system_test makes the same calls on its own); "eval": the one
\* perform_evaluation_cycle constructs on every cycle.
Managers == {"gen", "api", "eval"}
Directions == {"UP", "DOWN", "HOLD"}

MaxTime == 20
MaxGenTime == 1
MaxPreds == 2
MaxStoreLog == 2

\* the instants at which the system is looked at
Instants == {0, 1} \cup (19..MaxTime)

\* indicator values: insufficient data, a strong and a weaker upward signal
NeutralIndicators ==
    [rsi |-> 50, macd_histogram |-> 0, ma_trend |-> 0, volume_indicator |-> 0,
     bollinger_position |-> 5000, momentum |-> 0]
StrongUp ==
    [rsi |-> 25, macd_histogram |-> 2000, ma_trend |-> 1000,
     volume_indicator |-> 0, bollinger_position |-> 5000, momentum |-> 1000]
WeakUp ==
    [rsi |-> 25, macd_histogram |-> 2000, ma_trend |-> 0,
     volume_indicator |-> 0, bollinger_position |-> 5000, momentum |-> 1000]

NoMarket == [available |-> FALSE]
NoSentiment == [available |-> FALSE]
Market(indicators, close) ==
    [available |-> TRUE, indicators |-> indicators, close |-> close]
Sentiment(combined_sentiment) ==
    [available |-> TRUE, combined_sentiment |-> combined_sentiment]

\* what the store's generators are given
StoreMarkets == {NoMarket, Market(StrongUp, 1000)}
StoreSentiments == {NoSentiment}
\* what a caller of POST /record_outcome sends
OutcomeInputs ==
    {[direction |-> "UP", price_change |-> 250, current_price |-> 1025]}
\* the identifiers they name: those a prediction can have, and one none has
PostedIds == {t \in Instants : t <= MaxGenTime} \cup {MaxTime}
\* what fetch_ticker gives the evaluation cycle
Tickers == {[available |-> FALSE], [available |-> TRUE, last |-> 1005]}

----------------------------------------------------------------------------
(* Actions on the prediction store *)

\* _save_prediction_outcomes then _load_prediction_outcomes give back the
\* dict that was saved (string keys; numbers, strings and null as values), so
\* the file is held as the dict it encodes.

\* time passes
Tick(t) ==
    /\ t \in Instants
    /\ t > now
    /\ now' = t
    /\ UNCHANGED <<storeVars, learnVars, genVars, evalVars>>

\* PredictionManager.make_prediction on manager m (GET /predict,
\* system_test): the entry is stored under the timestamp whatever was there.
MakePrediction(m, market, sentiment) ==
    LET prediction == predict_next_movement(market, sentiment, now)
        store == Put(prediction_outcomes[m], prediction.timestamp,
                     NewEntry(prediction))
    IN  /\ prediction_outcomes' = [prediction_outcomes EXCEPT ![m] = store]
        /\ outcomes_file' = store
        /\ UNCHANGED <<now, last_return, learnVars, genVars, evalVars>>

\* One iteration of run_continuous_predictions.  Without market data the
\* prediction has no current_price, the log line raises KeyError and the
\* iteration ends in the except branch with nothing recorded.
GenTick(market, sentiment) ==
    LET prediction == predict_next_movement(market, sentiment, now)
        store == record_prediction_for_evaluation(prediction_outcomes["gen"],
                                                  prediction)
    IN  /\ IF "current_price" \notin DOMAIN prediction
           THEN UNCHANGED <<prediction_outcomes, outcomes_file, last_return>>
           ELSE /\ prediction_outcomes' =
                      [prediction_outcomes EXCEPT !["gen"] = store]
                /\ outcomes_file' =
                      IF InsertSaves(prediction_outcomes["gen"], prediction)
                      THEN store ELSE outcomes_file
                /\ last_return' =
                      [op |-> "record_prediction_for_evaluation",
                       skipped |-> prediction.timestamp
                                     \in DOMAIN prediction_outcomes["gen"]]
        /\ UNCHANGED <<now, learnVars, genVars, evalVars>>

\* A record_actual_outcome that saves its store also when the id is unknown.
record_actual_outcome_saves(m, prediction_timestamp, actual_direction, actual_price_change, current_price) ==
    IF prediction_timestamp \in DOMAIN prediction_outcomes[m]
    THEN
        LET entry == prediction_outcomes[m][prediction_timestamp]
            store == Put(prediction_outcomes[m], prediction_timestamp,
                         [entry EXCEPT !.actual_outcome =
                             [direction |-> actual_direction,
                              price_change |-> actual_price_change,
                              current_price |-> current_price,
                              recorded_at |-> now]])
        IN  /\ prediction_outcomes' = [prediction_outcomes EXCEPT ![m] = store]
            /\ IF RecordResultRaises(entry.prediction)
               THEN UNCHANGED learnVars
               ELSE LearnRecord(m, entry.prediction, actual_direction,
                                actual_price_change)
            /\ outcomes_file' = store
            /\ last_return' = [op |-> "record_actual_outcome", value |-> TRUE]
    ELSE
        /\ last_return' = [op |-> "record_actual_outcome", value |-> FALSE]
        /\ outcomes_file' = prediction_outcomes[m]
        /\ UNCHANGED <<prediction_outcomes, learnVars>>

\* PredictionManager.record_actual_outcome on manager m
record_actual_outcome(m, prediction_timestamp, actual_direction, actual_price_change, current_price) ==
    IF prediction_timestamp \in DOMAIN prediction_outcomes[m]
    THEN
        LET entry == prediction_outcomes[m][prediction_timestamp]
            store == Put(prediction_outcomes[m], prediction_timestamp,
                         [entry EXCEPT !.actual_outcome =
                             [direction |-> actual_direction,
                              price_change |-> actual_price_change,
                              current_price |-> current_price,
                              recorded_at |-> now]])
        IN  /\ prediction_outcomes' = [prediction_outcomes EXCEPT ![m] = store]
            /\ IF RecordResultRaises(entry.prediction)
               THEN UNCHANGED learnVars
               ELSE LearnRecord(m, entry.prediction, actual_direction,
                                actual_price_change)
            /\ outcomes_file' = store
            /\ last_return' = [op |-> "record_actual_outcome", value |-> TRUE]
    ELSE
        /\ last_return' = [op |-> "record_actual_outcome", value |-> FALSE]
        /\ UNCHANGED <<prediction_outcomes, outcomes_file, learnVars>>

\* POST /record_outcome: the caller names the prediction and the outcome
ApiRecordOutcome(prediction_timestamp, outcome) ==
    /\ record_actual_outcome("api", prediction_timestamp, outcome.direction,
                             outcome.price_change, outcome.current_price)
    /\ UNCHANGED <<now, genVars, evalVars>>

\* perform_evaluation_cycle up to its loop: a new PredictionManager (with its
\* predictor and learning module) loads the files and scans for the ready
\* predictions; an error of the scan ends the cycle.
EvalStart ==
    /\ eval_pc = "idle"
    /\ strategy_config' = [strategy_config EXCEPT !["eval"] = strategy_file]
    /\ performance_metrics' =
          [performance_metrics EXCEPT !["eval"] = initial_metrics]
    /\ IF PendingRaises(outcomes_file)
             \/ get_pending_evaluations(outcomes_file, now) = {}
       THEN /\ prediction_outcomes' =
                  [prediction_outcomes EXCEPT !["eval"] = EmptyStore]
            /\ UNCHANGED evalVars
       ELSE /\ prediction_outcomes' =
                  [prediction_outcomes EXCEPT !["eval"] = outcomes_file]
            /\ eval_pc' = "loop"
            /\ eval_pending' = get_pending_evaluations(outcomes_file, now)
    /\ UNCHANGED <<now, outcomes_file, last_return, strategy_file,
                   performance_log, adjustments, genVars>>

\* An iteration that records a HOLD without data when no price was obtained.
EvalStep_nulldata(pred_id, ticker) ==
    /\ eval_pc = "loop"
    /\ pred_id \in eval_pending
    /\ eval_pending' = eval_pending \ {pred_id}
    /\ eval_pc' = "loop"
    /\ IF ~ticker.available
       THEN record_actual_outcome("eval", pred_id, "HOLD", 0, 0)
       ELSE LET prediction_price ==
                    prediction_outcomes["eval"][pred_id].prediction.current_price
            IN  record_actual_outcome("eval", pred_id,
                    periodic_direction(prediction_price, ticker.last),
                    PriceChange(prediction_price, ticker.last), ticker.last)
    /\ UNCHANGED <<now, genVars>>

\* One iteration of the loop of perform_evaluation_cycle: fetch_ticker, the
\* classification and record_actual_outcome; an error of fetch_ticker is
\* logged and the loop goes on.  (The dict is iterated in insertion order,
\* which the function does not keep: any order is taken.)
EvalStep(pred_id, ticker) ==
    /\ eval_pc = "loop"
    /\ pred_id \in eval_pending
    /\ eval_pending' = eval_pending \ {pred_id}
    /\ eval_pc' = "loop"
    /\ IF ~ticker.available
       THEN UNCHANGED <<storeVars, learnVars>>
       ELSE LET prediction_price ==
                    prediction_outcomes["eval"][pred_id].prediction.current_price
            IN  record_actual_outcome("eval", pred_id,
                    periodic_direction(prediction_price, ticker.last),
                    PriceChange(prediction_price, ticker.last), ticker.last)
    /\ UNCHANGED <<now, genVars>>

\* The end of perform_evaluation_cycle (update_strategy is no method of the
\* learning module: the AttributeError is logged).  The cycle's manager is
\* dropped; what it held is read by nothing afterwards.
EvalEnd ==
    /\ eval_pc = "loop"
    /\ eval_pending = {}
    /\ eval_pc' = "idle"
    /\ prediction_outcomes' = [prediction_outcomes EXCEPT !["eval"] = EmptyStore]
    /\ performance_metrics' =
          [performance_metrics EXCEPT !["eval"] = initial_metrics]
    /\ UNCHANGED <<now, outcomes_file, last_return, strategy_file, strategy_config,
                   performance_log, adjustments, genVars, eval_pending>>

\* The system after its processes have started on empty files: every
\* SelfLearningModule found or wrote the default strategy_config.json.
Init ==
    /\ now = 0
    /\ outcomes_file = EmptyStore
    /\ prediction_outcomes = [m \in Managers |-> EmptyStore]
    /\ strategy_file = default_config
    /\ strategy_config = [m \in Managers |-> default_config]
    /\ performance_metrics = [m \in Managers |-> initial_metrics]
    /\ performance_log = <<>>
    /\ adjustments = 0
    /\ last_prediction = None
    /\ last_inputs = None
    /\ last_return = None
    /\ eval_pc = "idle"
    /\ eval_pending = {}

\* the bounds of the store: predictions are made up to MaxGenTime, at most
\* MaxPreds are stored, at most MaxStoreLog results are logged
MayGenerate ==
    /\ now <= MaxGenTime
    /\ Cardinality(DOMAIN outcomes_file \cup {now}) <= MaxPreds
MayRecord == Len(performance_log) < MaxStoreLog

Next ==
    \/ \E t \in Instants : Tick(t)
    \/ \E market \in StoreMarkets, sentiment \in StoreSentiments :
          MayGenerate /\ MakePrediction("api", market, sentiment)
    \/ \E market \in StoreMarkets, sentiment \in StoreSentiments :
          MayGenerate /\ GenTick(market, sentiment)
    \/ \E ts \in PostedIds, outcome \in OutcomeInputs :
          MayRecord /\ ApiRecordOutcome(ts, outcome)
    \/ EvalStart
    \/ \E pred_id \in eval_pending, ticker \in Tickers :
          MayRecord /\ EvalStep(pred_id, ticker)
    \/ EvalEnd

Spec == Init /\ [][Next]_vars

----------------------------------------------------------------------------
(* The prediction store: claims *)

HasOutcome(store, id) ==
    id \in DOMAIN store /\ store[id].actual_outcome # None

\* C1: record_actual_outcome on a prediction id that already has an outcome
\* returns False and leaves the stored outcome as first recorded.
CounterC1 ==
    [][\A ts \in PostedIds, outcome \in OutcomeInputs :
          (HasOutcome(prediction_outcomes["api"], ts)
              /\ ApiRecordOutcome(ts, outcome))
          => /\ last_return' = [op |-> "record_actual_outcome", value |-> FALSE]
             /\ prediction_outcomes'["api"][ts].actual_outcome
                   = prediction_outcomes["api"][ts].actual_outcome]_vars

\* C2: the durable store only grows: no write removes an entry of the file
\* or takes back an outcome the file holds.
CounterC2 ==
    [][\A id \in DOMAIN outcomes_file :
          /\ id \in DOMAIN outcomes_file'
          /\ HasOutcome(outcomes_file, id) => HasOutcome(outcomes_file', id)]_vars

\* C3: a stored prediction has an outcome only if it was recorded at or
\* after generated_at + prediction_window_minutes.
CounterC3 ==
    \A id \in DOMAIN outcomes_file :
        (HasOutcome(outcomes_file, id)
            /\ "prediction_window_minutes" \in DOMAIN outcomes_file[id].prediction)
        => outcomes_file[id].actual_outcome.recorded_at
             >= outcomes_file[id].prediction.timestamp
                  + outcomes_file[id].prediction.prediction_window_minutes

\* what get_pending_evaluations gives: its ids, or its error
PendingResult(store, at) ==
    IF PendingRaises(store) THEN [raised |-> TRUE]
    ELSE [raised |-> FALSE, value |-> get_pending_evaluations(store, at)]

\* the entries without outcome whose window plus 5 minutes has passed
ReadySet(store, at) ==
    {id \in DOMAIN store :
        /\ ~HasOutcome(store, id)
        /\ "prediction_window_minutes" \in DOMAIN store[id].prediction
        /\ store[id].prediction.timestamp
             + store[id].prediction.prediction_window_minutes + 5 <= at}

\* C4: for every store state and every time, get_pending_evaluations returns
\* exactly the entries without outcome whose generated_at + window + 5
\* minutes is at or before now.
CounterC4 ==
    \A m \in Managers :
        PendingResult(prediction_outcomes[m], now)
            = [raised |-> FALSE, value |-> ReadySet(prediction_outcomes[m], now)]

\* C5: record_prediction_for_evaluation with a prediction whose identifier is
\* already in the store leaves the manager's store and the file as they were.
TheoremC5 ==
    [][\A market \in StoreMarkets, sentiment \in StoreSentiments :
          (now \in DOMAIN prediction_outcomes["gen"]
              /\ market.available
              /\ GenTick(market, sentiment))
          => /\ prediction_outcomes'["gen"] = prediction_outcomes["gen"]
             /\ outcomes_file' = outcomes_file]_vars

\* a duplicate insert was skipped while the file held something else than
\* the manager's store
WitnessC5 ==
    /\ last_return = [op |-> "record_prediction_for_evaluation", skipped |-> TRUE]
    /\ now \in DOMAIN prediction_outcomes["gen"]
    /\ outcomes_file # prediction_outcomes["gen"]

----------------------------------------------------------------------------
(* The outcome classification on its own *)

MaxMove == 15
RefPrices == {1000, 2000}

\* the two prices of one classification
ClassifyInputs ==
    {[prediction_price |-> p, current_price |-> c] :
        p \in RefPrices, c \in (1000 - MaxMove)..(2000 + MaxMove)}

InitClassify ==
    /\ now = 0
    /\ outcomes_file = EmptyStore
    /\ prediction_outcomes = [m \in Managers |-> EmptyStore]
    /\ strategy_file = default_config
    /\ strategy_config = [m \in Managers |-> default_config]
    /\ performance_metrics = [m \in Managers |-> initial_metrics]
    /\ performance_log = <<>>
    /\ adjustments = 0
    /\ last_prediction = None
    /\ last_inputs \in {i \in ClassifyInputs :
                            Abs(i.current_price - i.prediction_price) <= MaxMove}
    /\ last_return = None
    /\ eval_pc = "idle"
    /\ eval_pending = {}

\* the classification of perform_evaluation_cycle on the two prices
ClassifyPeriodic ==
    /\ last_return = None
    /\ last_return' =
          [op |-> "perform_evaluation_cycle",
           direction |-> periodic_direction(last_inputs.prediction_price,
                                            last_inputs.current_price),
           price_change |-> PriceChange(last_inputs.prediction_price,
                                        last_inputs.current_price)]
    /\ UNCHANGED <<now, outcomes_file, prediction_outcomes, learnVars,
                   last_prediction, last_inputs, evalVars>>

NextClassify == ClassifyPeriodic

SpecClassify == InitClassify /\ [][NextClassify]_vars

\* C6: the direction recorded by the evaluation cycle is HOLD when
\* |priceChange| < 0.005, otherwise UP when priceChange is positive and DOWN
\* when it is negative, 0.005 and -0.005 included.
CounterC6 ==
    last_return # None =>
        LET p == last_inputs.prediction_price
            d == last_inputs.current_price - last_inputs.prediction_price
        IN  last_return.direction =
                IF Abs(d) * 1000 < 5 * p THEN "HOLD"
                ELSE IF d > 0 THEN "UP" ELSE "DOWN"

----------------------------------------------------------------------------
(* The generator on its own *)

IndicatorGrid ==
    [rsi : {25, 50, 75},
     macd_histogram : {0 - 2000, 0, 2000},
     ma_trend : {0 - 1000, 0, 1000},
     volume_indicator : {0, 1000},
     bollinger_position : {1000, 5000, 9000},
     momentum : {0 - 1000, 0, 1000}]

GenMarkets == {NoMarket} \cup {Market(i, 1000) : i \in IndicatorGrid}
GenSentiments ==
    {NoSentiment, Sentiment(0 - 10000), Sentiment(0), Sentiment(5000)}

InitGen ==
    /\ now = 0
    /\ outcomes_file = EmptyStore
    /\ prediction_outcomes = [m \in Managers |-> EmptyStore]
    /\ strategy_file = default_config
    /\ strategy_config = [m \in Managers |-> default_config]
    /\ performance_metrics = [m \in Managers |-> initial_metrics]
    /\ performance_log = <<>>
    /\ adjustments = 0
    /\ last_prediction = None
    /\ last_inputs \in [market : GenMarkets, sentiment : GenSentiments]
    /\ last_return = None
    /\ eval_pc = "idle"
    /\ eval_pending = {}

\* predict_next_movement on the inputs drawn
Predict ==
    /\ last_prediction = None
    /\ last_prediction' =
          predict_next_movement(last_inputs.market, last_inputs.sentiment, now)
    /\ UNCHANGED <<now, storeVars, learnVars, last_inputs, evalVars>>

NextGen == Predict

SpecGen == InitGen /\ [][NextGen]_vars

\* C8: every prediction of predict_next_movement, with or without a
\* sentiment signal, has confidence in [0, 1], and is HOLD whenever that
\* confidence is below the threshold the generator applies.
TheoremC8 ==
    last_prediction # None =>
        /\ 0 <= last_prediction.confidence
        /\ last_prediction.confidence <= Unit
        /\ last_prediction.confidence < confidence_threshold
              => last_prediction.prediction = "HOLD"

\* a prediction with a sentiment signal whose technical score was capped
\* at 1, and one below the threshold that was forced to HOLD
WitnessC8 ==
    /\ last_prediction # None
    /\ "sentiment_analysis" \in DOMAIN last_prediction
    /\ \/ /\ Abs(Score(weights, last_inputs.market.indicators)) > Unit
          /\ last_prediction.confidence = Unit
       \/ /\ last_prediction.confidence > 0
          /\ last_prediction.confidence < confidence_threshold
          /\ last_prediction.prediction = "HOLD"

----------------------------------------------------------------------------
(* The learning module on its own *)

MaxLog == 16

\* a result handed to record_prediction_result: the prediction as
\* predict_next_movement returned it, and what was observed afterwards
Result(market, sentiment, actual_outcome, actual_price_change) ==
    [prediction_data |-> predict_next_movement(market, sentiment, 0),
     actual_outcome |-> actual_outcome,
     actual_price_change |-> actual_price_change]

\* a confident UP followed by a flat market
FalseSignal == Result(Market(StrongUp, 1000), Sentiment(1000), "HOLD", 0)
\* a HOLD without confidence followed by a rise
Missed == Result(Market(NeutralIndicators, 1000), NoSentiment, "UP", 250)
\* a confident UP followed by a fall
Inverted == Result(Market(StrongUp, 1000), Sentiment(5000), "DOWN", 0 - 250)
\* a HOLD without confidence followed by a flat market
LowCorrect == Result(Market(NeutralIndicators, 1000), NoSentiment, "HOLD", 0)

LearnInputs == {FalseSignal, Missed, Inverted, LowCorrect}

RecordOf(input) ==
    analyzed_record(input.prediction_data, input.actual_outcome,
                    input.actual_price_change)

\* Logs of min_records records left by earlier runs of the process: no call
\* that wrote them could adjust, the log before it being shorter than
\* min_records.
SeedLogs ==
    {[i \in 1..min_records |-> RecordOf(IF i % 2 = 1 THEN Inverted ELSE Missed)],
     [i \in 1..min_records |-> RecordOf(FalseSignal)],
     [i \in 1..min_records |-> RecordOf(IF i <= 5 THEN LowCorrect ELSE Inverted)],
     [i \in 1..min_records |-> RecordOf(IF i <= 6 THEN LowCorrect ELSE Missed)]}

LearnMarkets == {Market(WeakUp, 1000)}
LearnSentiments == {NoSentiment}

InitLearn ==
    /\ now = 0
    /\ outcomes_file = EmptyStore
    /\ prediction_outcomes = [m \in Managers |-> EmptyStore]
    /\ strategy_file = default_config
    /\ strategy_config = [m \in Managers |-> default_config]
    /\ performance_metrics = [m \in Managers |-> initial_metrics]
    /\ performance_log \in SeedLogs
    /\ adjustments = 0
    /\ last_prediction = None
    /\ last_inputs = None
    /\ last_return = None
    /\ eval_pc = "idle"
    /\ eval_pending = {}

\* record_prediction_result of the learning module of the api process
RecordResult(input) ==
    /\ LearnRecord("api", input.prediction_data, input.actual_outcome,
                   input.actual_price_change)
    /\ UNCHANGED <<now, storeVars, genVars, evalVars>>

\* predict_next_movement of a BTCPredictor, while the learning module works
GeneratePrediction(market, sentiment) ==
    /\ last_prediction' = predict_next_movement(market, sentiment, now)
    /\ last_inputs' = [market |-> market, sentiment |-> sentiment]
    /\ UNCHANGED <<now, storeVars, learnVars, evalVars>>

NextLearn ==
    \/ \E input \in LearnInputs :
          Len(performance_log) < MaxLog /\ RecordResult(input)
    \/ \E market \in LearnMarkets, sentiment \in LearnSentiments :
          GeneratePrediction(market, sentiment)

SpecLearn == InitLearn /\ [][NextLearn]_vars

InClamps(config) ==
    /\ \A n \in DOMAIN config.indicator_weights :
          /\ 500 <= config.indicator_weights[n]
          /\ config.indicator_weights[n] <= 5000
    /\ 1000 <= config.sentiment_weight
    /\ config.sentiment_weight <= 5000
    /\ 4000 <= config.confidence_threshold
    /\ config.confidence_threshold <= 8000

\* C7: starting from the default config, after any number of adjustments
\* every indicator weight is in [0.05, 0.5], the sentiment weight in
\* [0.1, 0.5] and the confidence threshold in [0.4, 0.8].
TheoremC7 ==
    /\ InClamps(strategy_file)
    /\ \A m \in Managers : InClamps(strategy_config[m])

\* adjustments have driven a weight to its floor, the sentiment weight to
\* its floor and the threshold to its ceiling, and one more has run
WitnessC7 ==
    /\ adjustments >= 5
    /\ strategy_file.confidence_threshold = 8000
    /\ strategy_file.sentiment_weight = 1000
    /\ \E n \in DOMAIN strategy_file.indicator_weights :
          strategy_file.indicator_weights[n] = 500

\* C9: once an adjustment has written a config with weights W and
\* threshold t, a prediction generated afterwards is the one computed with
\* W and t.
CounterC9 ==
    [][\A market \in LearnMarkets, sentiment \in LearnSentiments :
          (adjustments > 0 /\ GeneratePrediction(market, sentiment)) =>
              last_prediction' =
                  PredictWith(GenerateWith(strategy_file.indicator_weights,
                                           market.indicators),
                              strategy_file.confidence_threshold,
                              market, sentiment, now)]_vars

\* C10: when at least min_records evaluated records exist and the
\* low_performance_streak most recent ones, the one just recorded included,
\* are all incorrect, that call of record_prediction_result adjusts.
CounterC10 ==
    [][\A input \in LearnInputs :
          (/\ Len(performance_log) >= min_records
           /\ RecordResult(input)
           /\ \A i \in 1..low_performance_streak :
                 ~performance_log'[Len(performance_log') - i + 1].is_correct)
          => adjustments' = adjustments + 1]_vars

----------------------------------------------------------------------------
(* The adjustment trigger over a long log and across restarts *)

MaxAppend == 2

\* A history of 2 * recent_window results: 17 of the first 20 correct, then
\* 5 of the last 20 correct (accuracy 0.25 against 0.55 over the whole log).
ScriptLen == 2 * recent_window
Script(k) ==
    IF k <= recent_window
    THEN (IF k % 6 = 0 THEN Missed ELSE LowCorrect)
    ELSE (IF k % 4 = 0 THEN LowCorrect ELSE Missed)

\* a process is started again: SelfLearningModule.__init__ zeroes the
\* metrics and loads strategy_config.json
Restart ==
    /\ performance_metrics["api"] # initial_metrics
    /\ performance_metrics' =
          [performance_metrics EXCEPT !["api"] = initial_metrics]
    /\ strategy_config' = [strategy_config EXCEPT !["api"] = strategy_file]
    /\ UNCHANGED <<now, storeVars, strategy_file, performance_log, adjustments,
                   genVars, evalVars>>

NextTrigger ==
    \/ \E input \in LearnInputs :
          /\ Len(performance_log) < ScriptLen + MaxAppend
          /\ Len(performance_log) < ScriptLen
                => input = Script(Len(performance_log) + 1)
          /\ RecordResult(input)
    \/ Len(performance_log) >= recent_window /\ Restart

SpecTrigger == Init /\ [][NextTrigger]_vars

\* correct records / records of a log
LogAccuracy(log) ==
    Ratio(Cardinality({i \in 1..Len(log) : log[i].is_correct}), Len(log))

\* the accuracy of the last recent_window records is more than accuracy_drop
\* below the accuracy of the whole log
Drop(log) ==
    /\ Len(log) >= recent_window
    /\ LogAccuracy(log) - LogAccuracy(LastN(log, recent_window)) > accuracy_drop

\* C11: when the accuracy over the last 20 evaluated records is more than
\* 0.05 below the all-time accuracy (whether or not the record being
\* recorded is counted), recording a result runs an adjustment.
CounterC11 ==
    [][\A input \in LearnInputs :
          (Drop(performance_log) /\ RecordResult(input) /\ Drop(performance_log'))
          => adjustments' = adjustments + 1]_vars

\* C12: while fewer than min_records records are in the performance log,
\* recording a result changes neither the in-memory config nor
\* strategy_config.json, and record_prediction_result raises no error.
CounterC12 ==
    [][\A ts \in PostedIds, outcome \in OutcomeInputs :
          (/\ Len(performance_log) < min_records
           /\ ts \in DOMAIN prediction_outcomes["api"]
           /\ ApiRecordOutcome(ts, outcome))
          => /\ strategy_file' = strategy_file
             /\ strategy_config' = strategy_config
             /\ ~RecordResultRaises(prediction_outcomes["api"][ts].prediction)]_vars

\* the indicator of a record that a weight of the generator applies to
RecordIndicator(n) ==
    CASE n = "macd" -> "macd_histogram"
      [] n = "volume" -> "volume_indicator"
      [] n = "bollinger" -> "bollinger_position"
      [] OTHER -> n

\* clamp(oldWeight + learning_rate * (accuracy - 0.5), 0.05, 0.5) for the
\* weight n, accuracy being the fraction of the records in which the
\* indicator of n was aligned with the actual direction
ClaimedWeight(config, recent_records, n) ==
    LET aligned == {i \in 1..Len(recent_records) :
                       indicator_aligned_with_outcome(
                           RecordIndicator(n),
                           recent_records[i].indicators[RecordIndicator(n)],
                           recent_records[i].actual_direction)}
        accuracy == Ratio(Cardinality(aligned), Len(recent_records))
    IN  Max(500, Min(5000, config.indicator_weights[n]
                             + ((accuracy - 5000) * config.learning_rate) \div Unit))

\* C13: an adjustment replaces each weight the generator uses (rsi, macd,
\* ma_trend, volume, bollinger) by clamp(old + learning_rate * (accuracy -
\* 0.5), 0.05, 0.5), accuracy taken over the last 50 records.
CounterC13 ==
    [][\A input \in LearnInputs :
          (RecordResult(input) /\ adjustments' = adjustments + 1)
          => \A n \in DOMAIN weights :
                strategy_file'.indicator_weights[n] =
                    ClaimedWeight(strategy_config["api"],
                                  LastN(performance_log, adjust_window), n)]_vars

\* the records of a window with confidence >= 0.7, and with confidence <= 0.3
HighConfidence(recent_records) ==
    {i \in 1..Len(recent_records) : recent_records[i].predicted_confidence >= 7000}
LowConfidence(recent_records) ==
    {i \in 1..Len(recent_records) : recent_records[i].predicted_confidence <= 3000}
\* the fraction of correct records among those of S
AccuracyOf(recent_records, S) ==
    Ratio(Cardinality({i \in S : recent_records[i].is_correct}), Cardinality(S))

\* the threshold rule on a window that has high-confidence records
ClaimedThreshold(t, recent_records) ==
    LET high == HighConfidence(recent_records)
        low  == LowConfidence(recent_records)
        high_acc == AccuracyOf(recent_records, high)
    IN  IF low # {} /\ AccuracyOf(recent_records, low) > high_acc
                   /\ AccuracyOf(recent_records, low) > 6000
        THEN Max(4000, t - 500)
        ELSE IF high_acc < 6000 THEN Min(8000, t + 500)
        ELSE t

\* C14: an adjustment lowers the threshold by 0.05 (floor 0.4) when the
\* low-confidence accuracy exceeds the high-confidence accuracy and 0.6,
\* otherwise raises it by 0.05 (ceiling 0.8) when the high-confidence
\* accuracy is below 0.6, otherwise leaves it; also on a window with
\* high-confidence records and no low-confidence record.
CounterC14 ==
    [][\A input \in LearnInputs :
          (/\ RecordResult(input)
           /\ adjustments' = adjustments + 1
           /\ HighConfidence(LastN(performance_log, adjust_window)) # {})
          => strategy_file'.confidence_threshold =
                ClaimedThreshold(strategy_config["api"].confidence_threshold,
                                 LastN(performance_log, adjust_window))]_vars

\* the records of a window that carry a sentiment signal, and those of them
\* whose sentiment agreed with what happened
WithSentiment(recent_records) ==
    {i \in 1..Len(recent_records) : "sentiment_analysis" \in DOMAIN recent_records[i]}
Helpful(recent_records) ==
    {i \in WithSentiment(recent_records) :
        LET score == recent_records[i].sentiment_analysis.combined_sentiment
            actual == recent_records[i].actual_direction
        IN  \/ actual = "HOLD" /\ Abs(score) < 2000
            \/ actual = "UP" /\ score > 0
            \/ actual = "DOWN" /\ score < 0}

\* the rule of the sentiment weight between the weights before and after
SentimentRule(before, after, recent_records) ==
    LET total == Cardinality(WithSentiment(recent_records))
        helpful == Cardinality(Helpful(recent_records))
    IN  IF total = 0 THEN after = before
        ELSE IF 10 * helpful > 6 * total THEN after >= before /\ after <= 5000
        ELSE IF 10 * helpful < 4 * total THEN after <= before /\ after >= 1000
        ELSE after = before

\* C15: on an adjustment, with helpfulRatio over the records of the window
\* that carry sentiment: above 0.6 the sentiment weight does not decrease
\* and stays at or below 0.5; below 0.4 it does not increase and stays at or
\* above 0.1; between them, or without any such record, it is unchanged.
TheoremC15 ==
    [][\A input \in LearnInputs :
          (adjustments' = adjustments + 1 /\ RecordResult(input))
          => /\ SentimentRule(strategy_config["api"].sentiment_weight,
                              strategy_file'.sentiment_weight,
                              LastN(performance_log, adjust_window))
             /\ strategy_config'["api"].sentiment_weight
                   = strategy_file'.sentiment_weight]_vars

\* adjustments over records with sentiment have moved the weight, and the
\* last window had a helpful ratio between 0.4 and 0.6
WitnessC15 ==
    /\ adjustments >= 2
    /\ strategy_file.sentiment_weight < default_config.sentiment_weight
    /\ Len(performance_log) > min_records
    /\ LET recent_records == SubSeq(performance_log, 1, Len(performance_log) - 1)
       IN  /\ 10 * Cardinality(Helpful(recent_records))
                  >= 4 * Cardinality(WithSentiment(recent_records))
           /\ 10 * Cardinality(Helpful(recent_records))
                  <= 6 * Cardinality(WithSentiment(recent_records))
           /\ WithSentiment(recent_records) # {}

----------------------------------------------------------------------------
(* The analysis of one evaluated prediction on its own *)

MaxSwing == 25

StrongDown ==
    [rsi |-> 75, macd_histogram |-> 0 - 2000, ma_trend |-> 0 - 1000,
     volume_indicator |-> 0, bollinger_position |-> 5000, momentum |-> 0 - 1000]

\* the predictions evaluated: an UP, a DOWN and a HOLD made at price 1000
AnalyzeMarkets ==
    {Market(StrongUp, 1000), Market(StrongDown, 1000),
     Market(NeutralIndicators, 1000)}

InitAnalyze ==
    /\ now = 0
    /\ outcomes_file = EmptyStore
    /\ prediction_outcomes = [m \in Managers |-> EmptyStore]
    /\ strategy_file = default_config
    /\ strategy_config = [m \in Managers |-> default_config]
    /\ performance_metrics = [m \in Managers |-> initial_metrics]
    /\ performance_log = <<>>
    /\ adjustments = 0
    /\ last_prediction = None
    /\ last_inputs \in [market : AnalyzeMarkets,
                         current_price : (1000 - MaxSwing)..(1000 + MaxSwing)]
    /\ last_return = None
    /\ eval_pc = "idle"
    /\ eval_pending = {}

\* The evaluation cycle classifies the move of a ready prediction and
\* record_prediction_result analyses it: the record it builds.
AnalyzeEvaluated ==
    /\ last_return = None
    /\ LET prediction == predict_next_movement(last_inputs.market,
                                               NoSentiment, now)
           price == last_inputs.current_price
       IN  last_return' =
             [op |-> "record_prediction_result",
              record |-> analyzed_record(
                  prediction,
                  periodic_direction(prediction.current_price, price),
                  PriceChange(prediction.current_price, price))]
    /\ UNCHANGED <<now, outcomes_file, prediction_outcomes, learnVars,
                   last_prediction, last_inputs, evalVars>>

NextAnalyze == AnalyzeEvaluated

SpecAnalyze == InitAnalyze /\ [][NextAnalyze]_vars

\* C16: an UP or DOWN prediction is correct exactly when predicted and
\* actual direction are equal; a HOLD prediction is correct exactly when
\* |actual price change| < 0.01, and an incorrect HOLD (a change of 2%) is
\* classified as a missed opportunity.
TheoremC16 ==
    last_return # None =>
        LET r == last_return.record
        IN  /\ r.predicted_direction \in {"UP", "DOWN"}
                 => (r.is_correct <=> r.predicted_direction = r.actual_direction)
            /\ r.predicted_direction = "HOLD"
                 => (r.is_correct <=> Abs(r.actual_price_change) < 100)
            /\ r.analysis.is_correct = r.is_correct
            /\ (r.predicted_direction = "HOLD" /\ ~r.is_correct)
                 => r.analysis.error_type = "missed_opportunity"

\* a HOLD followed by a move of 2%: incorrect, a missed opportunity
WitnessC16 ==
    /\ last_return # None
    /\ last_return.record.predicted_direction = "HOLD"
    /\ Abs(last_return.record.actual_price_change) = 200
    /\ ~last_return.record.is_correct
    /\ last_return.record.analysis.error_type = "missed_opportunity"

----------------------------------------------------------------------------
(* The prediction store: further claims *)

\* C17: record_actual_outcome with an identifier that is not in the store
\* returns False, leaves the in-memory and the persisted store unchanged and
\* does not reach the learning module (no record logged, config unchanged).
TheoremC17 ==
    [][\A ts \in PostedIds, outcome \in OutcomeInputs :
          (ts \notin DOMAIN prediction_outcomes["api"]
              /\ ApiRecordOutcome(ts, outcome))
          => /\ last_return' = [op |-> "record_actual_outcome", value |-> FALSE]
             /\ prediction_outcomes' = prediction_outcomes
             /\ outcomes_file' = outcomes_file
             /\ performance_log' = performance_log
             /\ strategy_file' = strategy_file
             /\ strategy_config' = strategy_config]_vars

\* an outcome was refused for an unknown id while the file held predictions
\* that the manager did not
WitnessC17 ==
    /\ last_return = [op |-> "record_actual_outcome", value |-> FALSE]
    /\ outcomes_file # EmptyStore
    /\ outcomes_file # prediction_outcomes["api"]

\* C18: an iteration of the evaluation pass that cannot obtain the price
\* records nothing: store, file and log are as they were, and a prediction
\* that the file held ready is still returned by the next ready scan.
TheoremC18 ==
    [][\A pred_id \in eval_pending :
          EvalStep(pred_id, [available |-> FALSE])
          => /\ outcomes_file' = outcomes_file
             /\ prediction_outcomes' = prediction_outcomes
             /\ performance_log' = performance_log
             /\ (~PendingRaises(outcomes_file)
                   /\ pred_id \in get_pending_evaluations(outcomes_file, now))
                => /\ ~PendingRaises(outcomes_file')
                   /\ pred_id \in get_pending_evaluations(outcomes_file', now')]_vars

\* the pass went over a ready prediction without a price: it has no outcome
\* in the cycle's store and the file still holds it ready
WitnessC18 ==
    /\ eval_pc = "loop"
    /\ ~PendingRaises(outcomes_file)
    /\ \E id \in DOMAIN prediction_outcomes["eval"] :
          /\ id \notin eval_pending
          /\ id \in get_pending_evaluations(prediction_outcomes["eval"], now)
          /\ id \in get_pending_evaluations(outcomes_file, now)

\* The evaluation loop keeps running (main of periodic_evaluation runs a
\* cycle every 15 minutes), time passes, and fetch_ticker succeeds again and
\* again for every prediction the loop reaches.
Fairness ==
    /\ WF_vars(\E t \in Instants : Tick(t))
    /\ WF_vars(EvalStart)
    /\ WF_vars(EvalEnd)
    /\ \A pred_id \in PostedIds :
          SF_vars(\E ticker \in Tickers :
                    ticker.available /\ MayRecord /\ EvalStep(pred_id, ticker))

SpecLive == Init /\ [][Next]_vars /\ Fairness

\* the file holds the prediction id with its window and buffer elapsed
ReadyInFile(id) ==
    /\ id \in DOMAIN outcomes_file
    /\ "prediction_window_minutes" \in DOMAIN outcomes_file[id].prediction
    /\ now >= id + outcomes_file[id].prediction.prediction_window_minutes + 5

\* C19: with the evaluation loop running and the price obtainable again and
\* again, every stored prediction whose window plus 5 minutes has elapsed
\* eventually has an outcome, whatever else the store holds (as long as the
\* log bound of the model leaves room to record it).
CounterC19 ==
    \A id \in PostedIds :
        ReadyInFile(id)
            ~> (HasOutcome(outcomes_file, id) \/ ~MayRecord)

----------------------------------------------------------------------------
(* The write of strategy_config.json step by step, and a reader *)

MaxChunks == 2
MaxWriteLog == 12

\* strategy_config.json holds a whole config; otherwise it holds the first
\* `written` pieces of the config that is being dumped (none after open)
FileComplete(file) == "written" \notin DOMAIN file

\* record_prediction_result of the api process up to the open(path, 'w') of
\* _save_strategy_config, when it adjusts: the in-memory config is adjusted
\* and the file truncated.
AdjustOpen(input) ==
    /\ FileComplete(strategy_file)
    /\ LET r == record_prediction_result(strategy_config["api"], strategy_file,
                    performance_metrics["api"], performance_log,
                    input.prediction_data, input.actual_outcome,
                    input.actual_price_change)
       IN  /\ r.adjusted
           /\ strategy_config' = [strategy_config EXCEPT !["api"] = r.strategy_config]
           /\ performance_metrics' =
                 [performance_metrics EXCEPT !["api"] = r.performance_metrics]
           /\ strategy_file' = [written |-> 0, config |-> r.strategy_config]
    /\ last_inputs' = input
    /\ UNCHANGED <<now, storeVars, performance_log, adjustments,
                   last_prediction, evalVars>>

\* json.dump hands a further piece to the file
AdjustWrite ==
    /\ ~FileComplete(strategy_file)
    /\ strategy_file.written < MaxChunks - 1
    /\ strategy_file' = [strategy_file EXCEPT !.written = @ + 1]
    /\ UNCHANGED <<now, storeVars, strategy_config, performance_metrics,
                   performance_log, adjustments, genVars, evalVars>>

\* the file is closed with everything written, and record_prediction_result
\* goes on to append its record to the log
AdjustClose ==
    /\ ~FileComplete(strategy_file)
    /\ strategy_file.written = MaxChunks - 1
    /\ strategy_file' = strategy_file.config
    /\ performance_log' = Append(performance_log, RecordOf(last_inputs))
    /\ adjustments' = adjustments + 1
    /\ last_inputs' = None
    /\ UNCHANGED <<now, storeVars, strategy_config, performance_metrics,
                   last_prediction, evalVars>>

\* _load_strategy_config of a SelfLearningModule that another process
\* constructs: json.load raises on a file that is not a whole document
LoadStrategyConfig ==
    /\ IF FileComplete(strategy_file)
       THEN /\ strategy_config' = [strategy_config EXCEPT !["eval"] = strategy_file]
            /\ last_return' = [op |-> "_load_strategy_config", raised |-> FALSE]
       ELSE /\ last_return' = [op |-> "_load_strategy_config", raised |-> TRUE]
            /\ UNCHANGED strategy_config
    /\ UNCHANGED <<now, outcomes_file, prediction_outcomes, strategy_file,
                   performance_metrics, performance_log, adjustments, genVars,
                   evalVars>>

NextWrite ==
    \/ \E input \in LearnInputs :
          /\ Len(performance_log) < MaxWriteLog
          /\ FileComplete(strategy_file)
          /\ RecordResult(input)
          /\ adjustments' = adjustments
    \/ \E input \in LearnInputs :
          Len(performance_log) < MaxWriteLog /\ AdjustOpen(input)
    \/ AdjustWrite
    \/ AdjustClose
    \/ LoadStrategyConfig

SpecWrite == InitLearn /\ [][NextWrite]_vars

\* C20: a reader that loads strategy_config.json while an adjustment writes
\* it obtains the whole old or the whole new config, never an empty or
\* partly written one.
CounterC20 ==
    ("op" \in DOMAIN last_return /\ last_return.op = "_load_strategy_config")
        => ~last_return.raised

----------------------------------------------------------------------------
(* Two learning modules on one strategy_config.json *)

MaxSharedLog == 13

\* perform_evaluation_cycle constructs its PredictionManager: the
\* SelfLearningModule of the cycle zeroes its metrics and loads
\* strategy_config.json
CycleConstruct ==
    /\ strategy_config' = [strategy_config EXCEPT !["eval"] = strategy_file]
    /\ performance_metrics' =
          [performance_metrics EXCEPT !["eval"] = initial_metrics]
    /\ UNCHANGED <<now, storeVars, strategy_file, performance_log, adjustments,
                   genVars, evalVars>>

\* record_prediction_result of the learning module of the cycle
CycleRecord(input) ==
    /\ LearnRecord("eval", input.prediction_data, input.actual_outcome,
                   input.actual_price_change)
    /\ UNCHANGED <<now, storeVars, genVars, evalVars>>

NextShared ==
    \/ \E input \in LearnInputs :
          Len(performance_log) < MaxSharedLog /\ RecordResult(input)
    \/ CycleConstruct
    \/ \E input \in LearnInputs :
          Len(performance_log) < MaxSharedLog /\ CycleRecord(input)

SpecShared == InitLearn /\ [][NextShared]_vars

\* C21: every adjustment, of the web API's module or of an evaluation
\* cycle's, writes the config obtained by adjusting the config that
\* strategy_config.json holds at that moment, so that no adjustment written
\* by the other module in between is discarded.
CounterC21 ==
    [][\A input \in LearnInputs :
          (adjustments' = adjustments + 1
              /\ (RecordResult(input) \/ CycleRecord(input)))
          => strategy_file' =
                adjusted_config(strategy_file,
                                LastN(performance_log, adjust_window))]_vars

----------------------------------------------------------------------------
(* The write of prediction_outcomes.json step by step, and a process stop *)

\* A file that is not a whole JSON document holds the entries dumped so far
\* and, under an identifier no prediction has, the mark of the cut.
Truncated == 0 - 1
Cut(store) == Put(store, Truncated, [truncated |-> TRUE])
StoreComplete(file) == Truncated \notin DOMAIN file

\* the process of the web API runs: it was not stopped, or was started again
Running ==
    last_return \in {None, [op |-> "_load_prediction_outcomes", raised |-> FALSE]}

\* make_prediction of the web API up to the open(path, 'w') of
\* _save_prediction_outcomes: the entry is in the manager's store and the
\* file is truncated.
SaveOpen(market, sentiment) ==
    LET prediction == predict_next_movement(market, sentiment, now)
    IN  /\ Running
        /\ StoreComplete(outcomes_file)
        /\ prediction_outcomes' =
              [prediction_outcomes EXCEPT !["api"] =
                  Put(@, prediction.timestamp, NewEntry(prediction))]
        /\ outcomes_file' = Cut(EmptyStore)
        /\ UNCHANGED <<now, last_return, learnVars, genVars, evalVars>>

\* json.dump hands the next entry of the store to the file
SaveWrite ==
    /\ Running
    /\ ~StoreComplete(outcomes_file)
    /\ \E id \in DOMAIN prediction_outcomes["api"] \ DOMAIN outcomes_file :
          /\ \A other \in DOMAIN prediction_outcomes["api"] \ DOMAIN outcomes_file :
                id <= other
          /\ outcomes_file' = Put(outcomes_file, id, prediction_outcomes["api"][id])
    /\ UNCHANGED <<now, prediction_outcomes, last_return, learnVars, genVars,
                   evalVars>>

\* the file is closed with every entry written
SaveClose ==
    /\ Running
    /\ ~StoreComplete(outcomes_file)
    /\ DOMAIN prediction_outcomes["api"] \subseteq DOMAIN outcomes_file
    /\ outcomes_file' = prediction_outcomes["api"]
    /\ UNCHANGED <<now, prediction_outcomes, last_return, learnVars, genVars,
                   evalVars>>

\* the process stops (kill, power loss): what it held in memory is gone, the
\* file stays as it is
Stop ==
    /\ Running
    /\ last_return' = [op |-> "stopped"]
    /\ prediction_outcomes' = [prediction_outcomes EXCEPT !["api"] = EmptyStore]
    /\ UNCHANGED <<now, outcomes_file, learnVars, genVars, evalVars>>

\* the process is started again: PredictionManager.__init__ loads the file,
\* and json.load raises on a file that is not a whole document
Start ==
    /\ last_return = [op |-> "stopped"]
    /\ IF StoreComplete(outcomes_file)
       THEN /\ prediction_outcomes' =
                  [prediction_outcomes EXCEPT !["api"] = outcomes_file]
            /\ last_return' = [op |-> "_load_prediction_outcomes", raised |-> FALSE]
       ELSE /\ last_return' = [op |-> "_load_prediction_outcomes", raised |-> TRUE]
            /\ UNCHANGED prediction_outcomes
    /\ UNCHANGED <<now, outcomes_file, learnVars, genVars, evalVars>>

NextCrash ==
    \/ \E t \in Instants : Tick(t)
    \/ \E market \in StoreMarkets, sentiment \in StoreSentiments :
          MayGenerate /\ SaveOpen(market, sentiment)
    \/ SaveWrite
    \/ SaveClose
    \/ Stop
    \/ Start

SpecCrash == Init /\ [][NextCrash]_vars

\* C22: whenever the process has stopped, also in the middle of
\* _save_prediction_outcomes, prediction_outcomes.json is a whole document
\* (the previous or the new store), never empty or cut short.
CounterC22 ==
    last_return = [op |-> "stopped"] => StoreComplete(outcomes_file)

----------------------------------------------------------------------------
(* The generation loop on its own *)

MaxLoop == 4

\* the loop of run_continuous_predictions after `iterations` iterations
LoopState(iterations, failed, running) ==
    [op |-> "run_continuous_predictions", iterations |-> iterations,
     failed |-> failed, running |-> running]

LoopRunning ==
    last_return = None \/ ("running" \in DOMAIN last_return /\ last_return.running)
LoopIterations ==
    IF last_return = None THEN 0 ELSE last_return.iterations

\* An iteration whose log line does not fail on a prediction without price,
\* so that the prediction is handed to record_prediction_for_evaluation.
LoopTick_inserts(market, sentiment) ==
    LET prediction == predict_next_movement(market, sentiment, now)
        store == record_prediction_for_evaluation(prediction_outcomes["gen"],
                                                  prediction)
    IN  /\ LoopRunning
        /\ last_prediction' = prediction
        /\ last_inputs' = [market |-> market, sentiment |-> sentiment]
        /\ prediction_outcomes' = [prediction_outcomes EXCEPT !["gen"] = store]
        /\ outcomes_file' = IF InsertSaves(prediction_outcomes["gen"], prediction)
                            THEN store ELSE outcomes_file
        /\ last_return' = LoopState(LoopIterations + 1, FALSE, TRUE)
        /\ UNCHANGED <<now, learnVars, evalVars>>

\* One iteration of the while loop of run_continuous_predictions, with what
\* predict_next_movement returned kept.  Without market data the prediction
\* has no current_price: the log line raises KeyError, `except Exception`
\* logs it and the loop sleeps and goes on.
LoopTick(market, sentiment) ==
    LET prediction == predict_next_movement(market, sentiment, now)
        store == record_prediction_for_evaluation(prediction_outcomes["gen"],
                                                  prediction)
    IN  /\ LoopRunning
        /\ last_prediction' = prediction
        /\ last_inputs' = [market |-> market, sentiment |-> sentiment]
        /\ IF "current_price" \notin DOMAIN prediction
           THEN /\ last_return' = LoopState(LoopIterations + 1, TRUE, TRUE)
                /\ UNCHANGED <<prediction_outcomes, outcomes_file>>
           ELSE /\ prediction_outcomes' =
                      [prediction_outcomes EXCEPT !["gen"] = store]
                /\ outcomes_file' =
                      IF InsertSaves(prediction_outcomes["gen"], prediction)
                      THEN store ELSE outcomes_file
                /\ last_return' = LoopState(LoopIterations + 1, FALSE, TRUE)
        /\ UNCHANGED <<now, learnVars, evalVars>>

\* KeyboardInterrupt: the loop breaks
LoopInterrupt ==
    /\ LoopRunning
    /\ last_return' = LoopState(LoopIterations, FALSE, FALSE)
    /\ UNCHANGED <<now, outcomes_file, prediction_outcomes, learnVars, genVars,
                   evalVars>>

NextLoop ==
    \/ \E t \in Instants : Tick(t)
    \/ \E market \in StoreMarkets, sentiment \in GenSentiments :
          LoopIterations < MaxLoop /\ LoopTick(market, sentiment)
    \/ LoopInterrupt

SpecLoop == Init /\ [][NextLoop]_vars

\* C23: an iteration of the generation loop without market data obtains a
\* HOLD prediction with confidence 0 and the no-data reason, inserts nothing
\* into the store or the file, and leaves the loop running for a later tick.
TheoremC23 ==
    [][\A sentiment \in GenSentiments :
          LoopTick(NoMarket, sentiment)
          => /\ last_prediction' =
                   [prediction |-> "HOLD", confidence |-> 0, timestamp |-> now,
                    reason |-> "No data available"]
             /\ prediction_outcomes' = prediction_outcomes
             /\ outcomes_file' = outcomes_file
             /\ last_return'.running
             /\ LoopRunning']_vars

\* an iteration without data has just failed while the store held an
\* earlier prediction, and the loop is running with iterations left
WitnessC23 ==
    /\ last_return # None
    /\ last_return.failed
    /\ last_return.running
    /\ last_return.iterations >= 2
    /\ last_return.iterations < MaxLoop
    /\ last_prediction.reason = "No data available"
    /\ outcomes_file # EmptyStore
    /\ now \notin DOMAIN outcomes_file

----------------------------------------------------------------------------
(* The prediction store: what one manager sees of another's writes *)

\* C24: a prediction that the generation process inserted into the file,
\* without outcome and with window plus buffer elapsed, is among the
\* predictions GET /pending_evaluations returns from the web API's manager
\* (whenever that scan returns at all), although that manager was created
\* before the insert.
CounterC24 ==
    \A id \in DOMAIN outcomes_file \cap DOMAIN prediction_outcomes["gen"] :
        (/\ ~HasOutcome(outcomes_file, id)
         /\ ReadyInFile(id)
         /\ ~PendingRaises(prediction_outcomes["api"]))
        => id \in get_pending_evaluations(prediction_outcomes["api"], now)

----------------------------------------------------------------------------
(* The all-time accuracy of the trigger *)

\* C25: the all-time accuracy that the trigger of a recording compares
\* against is (correct records) / (records) over the whole performance log,
\* the record being recorded included, whatever was recorded before the
\* module was constructed.
CounterC25 ==
    [][\A input \in LearnInputs :
          RecordResult(input)
          => performance_metrics'["api"].accuracy_rate
                = LogAccuracy(performance_log')]_vars

----------------------------------------------------------------------------
(* The prediction store and the performance log *)

\* C26: the performance log holds at most one analysed record for each
\* prediction identifier.
CounterC26 ==
    \A i, j \in 1..Len(performance_log) :
        performance_log[i].timestamp = performance_log[j].timestamp => i = j

----------------------------------------------------------------------------
(* The analysis of one evaluated prediction: error classification *)

\* C27: for every analysed record whose actual direction was derived from
\* the price change by the 0.5% rule, the error classification is
\* 'correct_prediction' exactly when is_correct is true.
CounterC27 ==
    last_return # None =>
        (last_return.record.analysis.error_type = "correct_prediction"
            <=> last_return.record.is_correct)

----------------------------------------------------------------------------
(* The two outcome evaluators on the same prices *)

\* AutoReviewScheduler.determine_actual_direction on two prices (neither of
\* them None): (direction, price_change)
determine_actual_direction(prediction_price, current_price) ==
    LET price_change == PriceChange(prediction_price, current_price)
        abs_change == Abs(price_change)
        threshold == 50
    IN  [direction |-> IF abs_change < threshold THEN "HOLD"
                       ELSE IF price_change > 0 THEN "UP"
                       ELSE "DOWN",
         price_change |-> price_change]

\* review_ready_predictions classifies the prices that the evaluation cycle
\* has classified
ClassifyReview ==
    /\ last_return # None
    /\ last_return.op = "perform_evaluation_cycle"
    /\ LET r == determine_actual_direction(last_inputs.prediction_price,
                                           last_inputs.current_price)
       IN  last_return' = [op |-> "determine_actual_direction",
                           direction |-> r.direction,
                           price_change |-> r.price_change]
    /\ UNCHANGED <<now, outcomes_file, prediction_outcomes, learnVars,
                   last_prediction, last_inputs, evalVars>>

NextAgree == ClassifyPeriodic \/ ClassifyReview

SpecAgree == InitClassify /\ [][NextAgree]_vars

\* C28: on the same reference and observed price, the direction and the
\* price change of AutoReviewScheduler.determine_actual_direction are those
\* of perform_evaluation_cycle.
CounterC28 ==
    [][ClassifyReview
          => /\ last_return'.direction = last_return.direction
             /\ last_return'.price_change = last_return.price_change]_vars

----------------------------------------------------------------------------
(* The learning module: the names of the indicator weights *)

\* C29: after any number of adjustments, indicator_weights of the config in
\* strategy_config.json and of every module has exactly the names rsi, macd,
\* ma_trend, volume and bollinger.
CounterC29 ==
    /\ DOMAIN strategy_file.indicator_weights = DOMAIN weights
    /\ \A m \in Managers :
          DOMAIN strategy_config[m].indicator_weights = DOMAIN weights

----------------------------------------------------------------------------
(* The prediction store: what every entry carries *)

\* C30: in every reachable state of every manager's store and of the file,
\* each stored prediction has a reference price and an evaluation-window
\* length, and get_pending_evaluations returns without raising.
CounterC30 ==
    \A store \in {prediction_outcomes[m] : m \in Managers} \cup {outcomes_file} :
        /\ \A id \in DOMAIN store :
              /\ "current_price" \in DOMAIN store[id].prediction
              /\ "prediction_window_minutes" \in DOMAIN store[id].prediction
        /\ ~PendingResult(store, now).raised

====
